---------------------------- MODULE Spec2Model ----------------------------
(***************************************************************************)
(* Request orchestration and status synchronisation layer of Dockerhood:   *)
(*   - Request / RequestManager   (dockerhood_libraries/requests.py)       *)
(*   - DockerhoodStatus / StatusUpdater (dockerhood_libraries/status.py)   *)
(*   - the execution loop of the main thread (dockerhood.py)               *)
(* Threads: interface threads (producers), the main thread (the            *)
(* Coordinator), the StatusUpdater thread and the RequestManager thread    *)
(* (the reaper).  Every step is one statement (or one group of statements  *)
(* touching only thread-local data) of the source.                         *)
(***************************************************************************)
EXTENDS Integers, Sequences, FiniteSets, TLC

(***************************************************************************)
(* Bounds of the model.  Times are counted in ticks of `responsiveness'.   *)
(***************************************************************************)
\* number of Request objects that can be constructed in one run
MaxRequests == 2
\* number of interface threads that call create_request
NumInterfaces == 2
\* last value of the wall clock (datetime.now()) that is modelled
MaxTime == 1
\* threads, other than the main one, that drive a StatusUpdater directly
NumCallers == 2

\* The three periods of the source, scaled down to a few ticks.
\* StatusUpdater(update_time=5), in ticks: a periodic refresh is due when
\* time_without_update > _update_time
_update_time == 1
\* RequestManager(discard_time=timedelta(days=1)), in clock units
discard_time == 0
\* requests.py:152, `if time_passed < 3600', in ticks
SweepAfter == 2

(***************************************************************************)
(* Program constants                                                       *)
(***************************************************************************)
\* Request.PENDING / EXECUTING / EXECUTED / ERROR (requests.py:41-44)
PENDING == 1
EXECUTING == 2
EXECUTED == 3
ERROR == -1
\* Python's None where a status or a uuid is expected (requests.py:237, 261);
\* also the status of a Request object that is not constructed yet
Absent == 0
\* the increment of the tick counters, sleep(self._resp) / responsiveness
_resp == 1

None == "None"
MAIN == "main"

Uuids == 1..MaxRequests
Interfaces == {"i" \o ToString(i) : i \in 1..NumInterfaces}
Callers == {"c" \o ToString(i) : i \in 1..NumCallers}
\* the threads that can be inside StatusUpdater.update()
UpdateThreads == {MAIN} \cup Callers
\* what an action can do when it is called
ActionKinds == {"return", "raise", "exit"}

VARIABLES
    \* ---- Request objects, indexed by uuid ------------------------------
    status,            \* Request.status
    answer,            \* Request.answer
    creation_time,     \* Request.creation_time
    outcome,           \* what Request.action did when it was called:
                       \* "return", "raise" (an error), "exit" (SystemExit),
                       \* or None while it has not ended
    running,           \* the requests whose action() has been called and
                       \* has neither returned nor raised
    calls,             \* how many times action() of a request was called
    finished,          \* for a request whose action is over: the number of
                       \* actions that were over when it ended (itself included)
    err_mesg,          \* local of Request.execute, kept per request: the lines
                       \* of traceback.format_exc(), none before the handler runs
    \* ---- RequestManager ------------------------------------------------
    _request_deque,    \* the FIFO of uuids
    _request_dict,     \* the set of uuids registered in the dictionary
    _request_lock,     \* holder of the lock, or None
    appended,          \* history: every uuid appended by create_request, in order
    dequeued,          \* history: how many times get_next_request returned
                       \* each uuid
    ipc, ireq,         \* interface threads: position in create_request, request
    rpc,               \* reaper thread: position in RequestManager.run
    time_passed,       \* local of RequestManager.run
    old_queue,         \* local of RequestManager.run
    sweep_time,        \* history: the clock when the sweep in progress took
                       \* the lock, 0 when no sweep is in progress
    since_sweep,       \* history: the ticks of RequestManager.run since the
                       \* last sweep began (since the start before the first
                       \* one), counted up to SweepAfter
    evicted,           \* history: the uuids a sweep found too old
    \* ---- StatusUpdater -------------------------------------------------
    _paused, _update_now, _executed,
    update_lock,       \* holder of StatusUpdater.__update_lock, or None
    upc,               \* updater thread: position in StatusUpdater.run
    time_without_update,
    ucall,             \* per thread: position inside StatusUpdater.update()
    fresh,             \* history, per thread inside update(): 0 no refresh has
                       \* begun since the call, 1 one has begun, 2 one that
                       \* began after the call has completed
    paused_at_call,    \* history, per thread: _paused when it entered update()
    \* ---- DockerhoodStatus ----------------------------------------------
    cache,             \* [linker, workers]: the cached fields, each holding
                       \* the version of the infrastructure it was read from
    cacheGen,          \* history: the infrastructure version at the start of
                       \* the last completed refresh
    \* ---- main thread and process ---------------------------------------
    mpc,               \* main thread: position in the execution loop
    request,           \* local `request' of the main thread
    interrupted,       \* history: a KeyboardInterrupt reached the handler of
                       \* dockerhood.py:185
    stop_flag,         \* StopExecutionFlag.__value
    now                \* the wall clock

reqVars == <<status, answer, creation_time, err_mesg, outcome, running, calls,
            finished>>
mgrVars == <<_request_deque, _request_dict, _request_lock, appended,
            dequeued>>
ifVars == <<ipc, ireq>>
reapVars == <<rpc, time_passed, old_queue, sweep_time, since_sweep, evicted>>
flagVars == <<_paused, _update_now, _executed>>
updVars == <<upc, time_without_update>>
callVars == <<update_lock, ucall, fresh, paused_at_call>>
cacheVars == <<cache, cacheGen>>
mainVars == <<mpc, request, interrupted>>
vars == <<reqVars, mgrVars, ifVars, reapVars, flagVars, updVars, callVars,
          cacheVars, mainVars, stop_flag, now>>

(***************************************************************************)
(* Helpers                                                                 *)
(***************************************************************************)
\* the process lives until the main thread ends: every other thread is a
\* daemon (requests.py:135, status.py:144)
Alive == mpc \notin {"exited", "crashed"}

\* the version of the infrastructure: the number of actions that are over
Infra == Cardinality({u \in Uuids : finished[u] > 0})

\* the positions of StatusUpdater.run that are inside self._update()
RefreshPcs == {"U1", "P1", "U2"}
Refreshing == upc \in RefreshPcs

Terminal == {EXECUTED, ERROR}

\* the value an action returns, stored in the answer at requests.py:74 (the
\* answer of a failed action is the last line of its traceback)
AnswerOf(kind) == IF kind = "return" THEN "ok" ELSE "boom"

Min(a, b) == IF a < b THEN a ELSE b

\* what traceback.format_exc() returns in the handler of Request.execute,
\* already split at the newlines (err_mesg.split('\n')): the text ends with
\* a newline, so the last element of the split is the empty string.  One
\* error raised by the body of an action, and the KeyboardInterrupt that the
\* bare `except:' of requests.py:80 catches as well.
Tracebacks ==
    { <<"Traceback (most recent call last):", "ValueError: boom", "">>,
      <<"Traceback (most recent call last):", "KeyboardInterrupt", "">> }

\* [l for l in err_mesg.split('\n') if l != '']   (requests.py:84)
traceback_lines(lines) == SelectSeq(lines, LAMBDA l : l # "")

(***************************************************************************)
(* Initial state: dockerhood.py:101-155.  DockerhoodStatus() has run its   *)
(* first update(), the three threads are started, no request exists.       *)
(***************************************************************************)
Init ==
    /\ status = [u \in Uuids |-> Absent]
    /\ answer = [u \in Uuids |-> None]
    /\ creation_time = [u \in Uuids |-> 0]
    /\ err_mesg = [u \in Uuids |-> <<>>]
    /\ outcome = [u \in Uuids |-> None]
    /\ running = {}
    /\ calls = [u \in Uuids |-> 0]
    /\ finished = [u \in Uuids |-> 0]
    /\ _request_deque = <<>>
    /\ _request_dict = {}
    /\ _request_lock = None
    /\ appended = <<>>
    /\ dequeued = [u \in Uuids |-> 0]
    /\ ipc = [i \in Interfaces |-> "idle"]
    /\ ireq = [i \in Interfaces |-> Absent]
    /\ rpc = "tick"
    /\ time_passed = 0
    /\ old_queue = <<>>
    /\ sweep_time = 0
    /\ since_sweep = 0
    /\ evicted = {}
    /\ _paused = FALSE
    /\ _update_now = FALSE
    /\ _executed = FALSE
    /\ update_lock = None
    /\ upc = "L1"
    /\ time_without_update = 0
    /\ ucall = [t \in UpdateThreads |-> "out"]
    /\ fresh = [t \in UpdateThreads |-> 0]
    /\ paused_at_call = [t \in UpdateThreads |-> FALSE]
    /\ cache = [linker |-> 0, workers |-> 0]
    /\ cacheGen = 0
    /\ mpc = "next"
    /\ request = Absent
    /\ interrupted = FALSE
    /\ stop_flag = FALSE
    /\ now = 0

(***************************************************************************)
(* The wall clock                                                          *)
(***************************************************************************)
Tick ==
    /\ Alive
    /\ now < MaxTime
    /\ now' = now + 1
    /\ UNCHANGED <<reqVars, mgrVars, ifVars, reapVars, flagVars, updVars,
                   callVars, cacheVars, mainVars, stop_flag>>

(***************************************************************************)
(* Request.__init__ and RequestManager.create_request, run by an interface *)
(* thread                                                                  *)
(***************************************************************************)

\* Request_init with the answer initialised to an empty string, not to None
Request_init_emptyanswer(u) ==
    /\ status' = [status EXCEPT ![u] = PENDING]
    /\ answer' = [answer EXCEPT ![u] = ""]
    /\ creation_time' = [creation_time EXCEPT ![u] = now]

\* Request(action): requests.py:46-53, called at requests.py:200
Request_init(u) ==
    /\ status' = [status EXCEPT ![u] = PENDING]
    /\ answer' = [answer EXCEPT ![u] = None]
    /\ creation_time' = [creation_time EXCEPT ![u] = now]

create_request_construct(i) ==
    /\ Alive
    /\ ipc[i] = "idle"
    /\ \E u \in Uuids :
          /\ status[u] = Absent
          /\ \A v \in Uuids : v < u => status[v] # Absent
          /\ Request_init(u)
          /\ ireq' = [ireq EXCEPT ![i] = u]
    /\ ipc' = [ipc EXCEPT ![i] = "acquire"]
    /\ UNCHANGED <<err_mesg, outcome, running, calls, finished, mgrVars, reapVars,
                   flagVars, updVars, callVars, cacheVars, mainVars, stop_flag,
                   now>>

create_request_acquire(i) ==
    /\ Alive
    /\ ipc[i] = "acquire"
    /\ _request_lock = None
    /\ _request_lock' = i
    /\ ipc' = [ipc EXCEPT ![i] = "append"]
    /\ UNCHANGED <<reqVars, _request_deque, _request_dict, appended, dequeued, ireq,
                   reapVars, flagVars, updVars, callVars, cacheVars, mainVars,
                   stop_flag, now>>


\* create_request_append with appendleft in place of append
create_request_appendleft(i) ==
    /\ Alive
    /\ ipc[i] = "append"
    /\ _request_deque' = <<ireq[i]>> \o _request_deque
    /\ appended' = Append(appended, ireq[i])
    /\ ipc' = [ipc EXCEPT ![i] = "insert"]
    /\ UNCHANGED <<reqVars, _request_dict, dequeued, _request_lock, ireq, reapVars,
                   flagVars, updVars, callVars, cacheVars, mainVars, stop_flag,
                   now>>

\* self._request_deque.append(request.uuid)
create_request_append(i) ==
    /\ Alive
    /\ ipc[i] = "append"
    /\ _request_deque' = Append(_request_deque, ireq[i])
    /\ appended' = Append(appended, ireq[i])
    /\ ipc' = [ipc EXCEPT ![i] = "insert"]
    /\ UNCHANGED <<reqVars, _request_dict, dequeued, _request_lock, ireq, reapVars,
                   flagVars, updVars, callVars, cacheVars, mainVars, stop_flag,
                   now>>

\* self._request_dict[request.uuid] = request
create_request_insert(i) ==
    /\ Alive
    /\ ipc[i] = "insert"
    /\ _request_dict' = _request_dict \cup {ireq[i]}
    /\ ipc' = [ipc EXCEPT ![i] = "release"]
    /\ UNCHANGED <<reqVars, _request_deque, _request_lock, appended, dequeued, ireq,
                   reapVars, flagVars, updVars, callVars, cacheVars, mainVars,
                   stop_flag, now>>

\* self._request_lock.release(); return request.uuid
create_request_release(i) ==
    /\ Alive
    /\ ipc[i] = "release"
    /\ _request_lock' = None
    /\ ipc' = [ipc EXCEPT ![i] = "idle"]
    /\ UNCHANGED <<reqVars, _request_deque, _request_dict, appended, dequeued, ireq,
                   reapVars, flagVars, updVars, callVars, cacheVars, mainVars,
                   stop_flag, now>>


\* get_request_status reporting a request as unknown until it is picked up
get_request_status_nopending(u) ==
    IF u \in _request_dict /\ status[u] # PENDING THEN status[u] ELSE Absent

\* what an interface thread reads: requests.py:259-263 and 277-281
get_request_status(u) == IF u \in _request_dict THEN status[u] ELSE Absent
get_answer(u) == IF u \in _request_dict THEN answer[u] ELSE None

(***************************************************************************)
(* RequestManager.run: the reaper thread (requests.py:145-184)             *)
(***************************************************************************)

\* TooOld with a request of age exactly discard_time counted as too old
TooOld_inclusive(u) == now - creation_time[u] >= discard_time

\* Request.age() > self.discard_time (requests.py:55-59, 171)
TooOld(u) == now - creation_time[u] > discard_time

\* sleep, count the tick, look at the stop flag and at the hour counter
\* (requests.py:148-153).  time_passed is only ever compared with the
\* threshold, so it is kept from growing past it.
RequestManager_run_tick ==
    /\ Alive
    /\ rpc = "tick"
    /\ time_passed' = Min(time_passed + _resp, SweepAfter)
    /\ since_sweep' = Min(since_sweep + _resp, SweepAfter)
    /\ rpc' = IF stop_flag THEN "done"
              ELSE IF time_passed' < SweepAfter THEN "tick"
              ELSE "acquire"
    /\ UNCHANGED <<reqVars, mgrVars, ifVars, old_queue, sweep_time, evicted,
                   flagVars, updVars, callVars, cacheVars, mainVars, stop_flag,
                   now>>

\* self._request_lock.acquire(); old_queue = self._request_deque;
\* self._request_deque = deque()   (requests.py:158-165)
RequestManager_run_acquire ==
    /\ Alive
    /\ rpc = "acquire"
    /\ _request_lock = None
    /\ _request_lock' = "reaper"
    /\ old_queue' = _request_deque
    /\ _request_deque' = <<>>
    /\ sweep_time' = now
    /\ since_sweep' = 0
    /\ rpc' = "walk"
    /\ UNCHANGED <<reqVars, _request_dict, appended, dequeued, ifVars, time_passed,
                   evicted, flagVars, updVars, callVars, cacheVars, mainVars,
                   stop_flag, now>>

\* RequestManager_run_walk with a too old request taken out of the queue and
\* left in the dictionary
RequestManager_run_walk_keepdict ==
    /\ Alive
    /\ rpc = "walk"
    /\ old_queue # <<>>
    /\ LET uuid == Head(old_queue) IN
         /\ old_queue' = Tail(old_queue)
         /\ IF uuid \notin _request_dict
              THEN /\ rpc' = "crashed"
                   /\ UNCHANGED <<_request_deque, _request_dict, evicted>>
            ELSE IF TooOld(uuid)
              THEN /\ evicted' = evicted \cup {uuid}
                   /\ UNCHANGED <<_request_deque, _request_dict, rpc>>
              ELSE /\ _request_deque' = Append(_request_deque, uuid)
                   /\ UNCHANGED <<_request_dict, evicted, rpc>>
    /\ UNCHANGED <<reqVars, _request_lock, appended, dequeued, ifVars, time_passed,
                   sweep_time, since_sweep, flagVars, updVars, callVars,
                   cacheVars, mainVars, stop_flag, now>>

\* RequestManager_run_walk with a too old request deleted from the dictionary
\* and copied to the new queue all the same
RequestManager_run_walk_keepqueued ==
    /\ Alive
    /\ rpc = "walk"
    /\ old_queue # <<>>
    /\ LET uuid == Head(old_queue) IN
         /\ old_queue' = Tail(old_queue)
         /\ IF uuid \notin _request_dict
              THEN /\ rpc' = "crashed"
                   /\ UNCHANGED <<_request_deque, _request_dict, evicted>>
            ELSE IF TooOld(uuid)
              THEN /\ _request_dict' = _request_dict \ {uuid}
                   /\ _request_deque' = Append(_request_deque, uuid)
                   /\ evicted' = evicted \cup {uuid}
                   /\ UNCHANGED rpc
              ELSE /\ _request_deque' = Append(_request_deque, uuid)
                   /\ UNCHANGED <<_request_dict, evicted, rpc>>
    /\ UNCHANGED <<reqVars, _request_lock, appended, dequeued, ifVars, time_passed,
                   sweep_time, since_sweep, flagVars, updVars, callVars,
                   cacheVars, mainVars, stop_flag, now>>

\* RequestManager_run_walk with the kept request put at the left end of the
\* new queue (appendleft instead of append)
RequestManager_run_walk_appendleft ==
    /\ Alive
    /\ rpc = "walk"
    /\ old_queue # <<>>
    /\ LET uuid == Head(old_queue) IN
         /\ old_queue' = Tail(old_queue)
         /\ IF uuid \notin _request_dict
              THEN /\ rpc' = "crashed"
                   /\ UNCHANGED <<_request_deque, _request_dict, evicted>>
            ELSE IF TooOld(uuid)
              THEN /\ _request_dict' = _request_dict \ {uuid}
                   /\ evicted' = evicted \cup {uuid}
                   /\ UNCHANGED <<_request_deque, rpc>>
              ELSE /\ _request_deque' = <<uuid>> \o _request_deque
                   /\ UNCHANGED <<_request_dict, evicted, rpc>>
    /\ UNCHANGED <<reqVars, _request_lock, appended, dequeued, ifVars, time_passed,
                   sweep_time, since_sweep, flagVars, updVars, callVars,
                   cacheVars, mainVars, stop_flag, now>>

\* one turn of `while len(old_queue) > 0' (requests.py:168-178)
RequestManager_run_walk ==
    /\ Alive
    /\ rpc = "walk"
    /\ old_queue # <<>>
    /\ LET uuid == Head(old_queue) IN
         /\ old_queue' = Tail(old_queue)
         /\ IF uuid \notin _request_dict
              THEN \* KeyError at requests.py:170 ends the thread
                   /\ rpc' = "crashed"
                   /\ UNCHANGED <<_request_deque, _request_dict, evicted>>
            ELSE IF TooOld(uuid)
              THEN /\ _request_dict' = _request_dict \ {uuid}
                   /\ evicted' = evicted \cup {uuid}
                   /\ UNCHANGED <<_request_deque, rpc>>
              ELSE /\ _request_deque' = Append(_request_deque, uuid)
                   /\ UNCHANGED <<_request_dict, evicted, rpc>>
    /\ UNCHANGED <<reqVars, _request_lock, appended, dequeued, ifVars, time_passed,
                   sweep_time, since_sweep, flagVars, updVars, callVars,
                   cacheVars, mainVars, stop_flag, now>>

\* RequestManager_run_release without `self._request_lock.release()': the
\* reaper goes back to its ticks with the lock
RequestManager_run_release_keeplock ==
    /\ Alive
    /\ rpc = "walk"
    /\ old_queue = <<>>
    /\ sweep_time' = 0
    /\ rpc' = "tick"
    /\ UNCHANGED <<reqVars, mgrVars, ifVars, time_passed, old_queue, since_sweep,
                   evicted, flagVars, updVars, callVars, cacheVars, mainVars,
                   stop_flag, now>>

\* self._request_lock.release()   (requests.py:182)
RequestManager_run_release ==
    /\ Alive
    /\ rpc = "walk"
    /\ old_queue = <<>>
    /\ _request_lock' = None
    /\ sweep_time' = 0
    /\ rpc' = "tick"
    /\ UNCHANGED <<reqVars, _request_deque, _request_dict, appended, dequeued, ifVars,
                   time_passed, old_queue, since_sweep, evicted, flagVars,
                   updVars, callVars, cacheVars, mainVars, stop_flag, now>>

(***************************************************************************)
(* StatusUpdater: pause, unpause, update (status.py:208-244)               *)
(***************************************************************************)

\* pause as a toggle of the flag
pause_toggle == _paused' = ~_paused

\* self._paused = True
pause == _paused' = TRUE

\* self._paused = False
unpause == _paused' = FALSE

\* entry of update() by thread t: self.__update_lock.acquire() is next
update_call(t) ==
    /\ ucall' = [ucall EXCEPT ![t] = "acquire"]
    /\ fresh' = [fresh EXCEPT ![t] = 0]
    /\ paused_at_call' = [paused_at_call EXCEPT ![t] = _paused]

\* update_acquire without the lock: update() goes on whoever holds
\* __update_lock
update_acquire_nolock(t) ==
    /\ Alive
    /\ ucall[t] = "acquire"
    /\ update_lock' = t
    /\ ucall' = [ucall EXCEPT ![t] = "request"]
    /\ UNCHANGED <<reqVars, mgrVars, ifVars, reapVars, flagVars, updVars,
                   fresh, paused_at_call, cacheVars, mainVars, stop_flag, now>>

\* self.__update_lock.acquire()   (status.py:215)
update_acquire(t) ==
    /\ Alive
    /\ ucall[t] = "acquire"
    /\ update_lock = None
    /\ update_lock' = t
    /\ ucall' = [ucall EXCEPT ![t] = "request"]
    /\ UNCHANGED <<reqVars, mgrVars, ifVars, reapVars, flagVars, updVars,
                   fresh, paused_at_call, cacheVars, mainVars, stop_flag, now>>

\* update_request with the refresh made by the calling thread itself
update_request_inline(t) ==
    /\ Alive
    /\ ucall[t] = "request"
    /\ _update_now' = TRUE
    /\ cache' = [linker |-> Infra, workers |-> Infra]
    /\ ucall' = [ucall EXCEPT ![t] = "wait"]
    /\ UNCHANGED <<reqVars, mgrVars, ifVars, reapVars, _paused, _executed,
                   updVars, update_lock, fresh, paused_at_call, cacheGen, mainVars,
                   stop_flag, now>>

\* self._update_now = True   (status.py:218)
update_request(t) ==
    /\ Alive
    /\ ucall[t] = "request"
    /\ _update_now' = TRUE
    /\ ucall' = [ucall EXCEPT ![t] = "wait"]
    /\ UNCHANGED <<reqVars, mgrVars, ifVars, reapVars, _paused, _executed,
                   updVars, update_lock, fresh, paused_at_call, cacheVars, mainVars,
                   stop_flag, now>>

\* while not self._executed: sleep(self._resp)   (status.py:222-223)
update_wait(t) ==
    /\ Alive
    /\ ucall[t] = "wait"
    /\ _executed
    /\ ucall' = [ucall EXCEPT ![t] = "reset"]
    /\ UNCHANGED <<reqVars, mgrVars, ifVars, reapVars, flagVars, updVars,
                   update_lock, fresh, paused_at_call, cacheVars, mainVars, stop_flag, now>>

\* self._executed = False   (status.py:226)
update_reset(t) ==
    /\ Alive
    /\ ucall[t] = "reset"
    /\ _executed' = FALSE
    /\ ucall' = [ucall EXCEPT ![t] = "release"]
    /\ UNCHANGED <<reqVars, mgrVars, ifVars, reapVars, _paused, _update_now,
                   updVars, update_lock, fresh, paused_at_call, cacheVars, mainVars,
                   stop_flag, now>>

\* self.__update_lock.release() and return   (status.py:230)
update_release(t) ==
    /\ Alive
    /\ ucall[t] = "release"
    /\ update_lock' = None
    /\ ucall' = [ucall EXCEPT ![t] = "out"]
    /\ UNCHANGED <<reqVars, mgrVars, ifVars, reapVars, flagVars, updVars,
                   fresh, paused_at_call, cacheVars, mainVars, stop_flag, now>>

(***************************************************************************)
(* DockerhoodStatus.update (status.py:59-85), called by                    *)
(* StatusUpdater._update (status.py:246-252).  The fields are written one  *)
(* after the other, each from a query of the infrastructure made then.     *)
(***************************************************************************)
\* the call, up to the first fields written (status.py:65-66)
DockerhoodStatus_update_begin ==
    /\ cache' = [cache EXCEPT !.linker = Infra]
    /\ fresh' = [t \in UpdateThreads |->
                   IF ucall[t] # "out" /\ fresh[t] = 0 THEN 1 ELSE fresh[t]]
    /\ UNCHANGED cacheGen

\* the last fields written (status.py:77-85) and the return
DockerhoodStatus_update_end ==
    /\ cache' = [cache EXCEPT !.workers = Infra]
    /\ cacheGen' = cache.linker
    /\ fresh' = [t \in UpdateThreads |-> IF fresh[t] = 1 THEN 2 ELSE fresh[t]]

(***************************************************************************)
(* StatusUpdater.run: the updater thread (status.py:168-206)               *)
(***************************************************************************)
\* `while self._paused:' of the first loop (status.py:175)
StatusUpdater_run_L1 ==
    /\ Alive
    /\ upc = "L1"
    /\ upc' = IF _paused THEN "S1" ELSE "L2"
    /\ UNCHANGED <<reqVars, mgrVars, ifVars, reapVars, flagVars,
                   time_without_update, callVars, cacheVars, mainVars,
                   stop_flag, now>>


\* StatusUpdater_run_S1 with `self._executed = True' placed before
\* `self._update()' in the branch that serves _update_now
StatusUpdater_run_S1_early ==
    /\ Alive
    /\ upc = "S1"
    /\ LET twu == time_without_update + _resp IN
         IF stop_flag
           THEN /\ upc' = "L2"
                /\ time_without_update' = twu
                /\ UNCHANGED <<_update_now, _executed, cacheVars, fresh>>
         ELSE IF _update_now
           THEN /\ time_without_update' = 0
                /\ _update_now' = FALSE
                /\ _executed' = TRUE
                /\ DockerhoodStatus_update_begin
                /\ upc' = "U1"
         ELSE IF twu > _update_time
           THEN /\ time_without_update' = 0
                /\ DockerhoodStatus_update_begin
                /\ upc' = "P1"
                /\ UNCHANGED <<_update_now, _executed>>
         ELSE /\ time_without_update' = twu
              /\ upc' = "L1"
              /\ UNCHANGED <<_update_now, _executed, cacheVars, fresh>>
    /\ UNCHANGED <<reqVars, mgrVars, ifVars, reapVars, _paused,
                   update_lock, ucall, paused_at_call, mainVars, stop_flag,
                   now>>

\* body of the first loop up to the call of _update (status.py:176-187)
StatusUpdater_run_S1 ==
    /\ Alive
    /\ upc = "S1"
    /\ LET twu == time_without_update + _resp IN
         IF stop_flag
           THEN /\ upc' = "L2"
                /\ time_without_update' = twu
                /\ UNCHANGED <<_update_now, cacheVars, fresh>>
         ELSE IF _update_now
           THEN /\ time_without_update' = 0
                /\ _update_now' = FALSE
                /\ DockerhoodStatus_update_begin
                /\ upc' = "U1"
         ELSE IF twu > _update_time
           THEN /\ time_without_update' = 0
                /\ DockerhoodStatus_update_begin
                /\ upc' = "P1"
                /\ UNCHANGED _update_now
         ELSE /\ time_without_update' = twu
              /\ upc' = "L1"
              /\ UNCHANGED <<_update_now, cacheVars, fresh>>
    /\ UNCHANGED <<reqVars, mgrVars, ifVars, reapVars, _paused, _executed,
                   update_lock, ucall, paused_at_call, mainVars, stop_flag, now>>

\* self._update() of status.py:183 returns
StatusUpdater_run_U1 ==
    /\ Alive
    /\ upc = "U1"
    /\ DockerhoodStatus_update_end
    /\ upc' = "E1"
    /\ UNCHANGED <<reqVars, mgrVars, ifVars, reapVars, flagVars,
                   time_without_update, update_lock, ucall, paused_at_call, mainVars,
                   stop_flag, now>>

\* variant of StatusUpdater_run_E1 that never reports the refresh as executed
StatusUpdater_run_E1_silent ==
    /\ Alive
    /\ upc = "E1"
    /\ IF time_without_update > _update_time
         THEN /\ time_without_update' = 0
              /\ DockerhoodStatus_update_begin
              /\ upc' = "P1"
         ELSE /\ upc' = "L1"
              /\ UNCHANGED <<time_without_update, cacheVars, fresh>>
    /\ UNCHANGED <<reqVars, mgrVars, ifVars, reapVars, flagVars,
                   update_lock, ucall, paused_at_call, mainVars, stop_flag, now>>

\* self._executed = True, then the timer test (status.py:184-187)
StatusUpdater_run_E1 ==
    /\ Alive
    /\ upc = "E1"
    /\ _executed' = TRUE
    /\ IF time_without_update > _update_time
         THEN /\ time_without_update' = 0
              /\ DockerhoodStatus_update_begin
              /\ upc' = "P1"
         ELSE /\ upc' = "L1"
              /\ UNCHANGED <<time_without_update, cacheVars, fresh>>
    /\ UNCHANGED <<reqVars, mgrVars, ifVars, reapVars, _paused, _update_now,
                   update_lock, ucall, paused_at_call, mainVars, stop_flag, now>>

\* self._update() of status.py:187 returns
StatusUpdater_run_P1 ==
    /\ Alive
    /\ upc = "P1"
    /\ DockerhoodStatus_update_end
    /\ upc' = "L1"
    /\ UNCHANGED <<reqVars, mgrVars, ifVars, reapVars, flagVars,
                   time_without_update, update_lock, ucall, paused_at_call, mainVars,
                   stop_flag, now>>


\* self.dockerhood_status.update() raises (a query of the infrastructure
\* fails): neither _update (status.py:246-252) nor run (status.py:168-206)
\* has a handler, so the exception ends the updater thread, the fields
\* written so far keeping their new values
StatusUpdater_run_raise ==
    /\ Alive
    /\ upc \in RefreshPcs
    /\ upc' = "crashed"
    /\ UNCHANGED <<reqVars, mgrVars, ifVars, reapVars, flagVars,
                   time_without_update, callVars, cacheVars, mainVars,
                   stop_flag, now>>

\* `while self._paused:' of the second loop (status.py:192)
StatusUpdater_run_L2 ==
    /\ Alive
    /\ upc = "L2"
    /\ upc' = IF _paused THEN "S2" ELSE "L3"
    /\ UNCHANGED <<reqVars, mgrVars, ifVars, reapVars, flagVars,
                   time_without_update, callVars, cacheVars, mainVars,
                   stop_flag, now>>


\* StatusUpdater_run_S2 without `if self.stop_flag: break'
StatusUpdater_run_S2_nostop ==
    /\ Alive
    /\ upc = "S2"
    /\ IF _update_now
         THEN /\ _update_now' = FALSE
              /\ DockerhoodStatus_update_begin
              /\ upc' = "U2"
       ELSE /\ upc' = "L2"
            /\ UNCHANGED <<_update_now, cacheVars, fresh>>
    /\ UNCHANGED <<reqVars, mgrVars, ifVars, reapVars, _paused, _executed,
                   time_without_update, update_lock, ucall, paused_at_call,
                   mainVars, stop_flag, now>>

\* body of the second loop up to the call of _update (status.py:193-198)
StatusUpdater_run_S2 ==
    /\ Alive
    /\ upc = "S2"
    /\ IF stop_flag
         THEN /\ upc' = "L3"
              /\ UNCHANGED <<_update_now, cacheVars, fresh>>
       ELSE IF _update_now
         THEN /\ _update_now' = FALSE
              /\ DockerhoodStatus_update_begin
              /\ upc' = "U2"
       ELSE /\ upc' = "L2"
            /\ UNCHANGED <<_update_now, cacheVars, fresh>>
    /\ UNCHANGED <<reqVars, mgrVars, ifVars, reapVars, _paused, _executed,
                   time_without_update, update_lock, ucall, paused_at_call, mainVars,
                   stop_flag, now>>

\* self._update() of status.py:198 returns
StatusUpdater_run_U2 ==
    /\ Alive
    /\ upc = "U2"
    /\ DockerhoodStatus_update_end
    /\ upc' = "E2"
    /\ UNCHANGED <<reqVars, mgrVars, ifVars, reapVars, flagVars,
                   time_without_update, update_lock, ucall, paused_at_call, mainVars,
                   stop_flag, now>>

\* self._executed = True   (status.py:199)
StatusUpdater_run_E2 ==
    /\ Alive
    /\ upc = "E2"
    /\ _executed' = TRUE
    /\ upc' = "L2"
    /\ UNCHANGED <<reqVars, mgrVars, ifVars, reapVars, _paused, _update_now,
                   time_without_update, callVars,
                   cacheVars, mainVars, stop_flag, now>>

\* `if self.stop_flag: break', else time_without_update = 0 and the outer
\* loop starts again (status.py:201-206)
StatusUpdater_run_L3 ==
    /\ Alive
    /\ upc = "L3"
    /\ IF stop_flag
         THEN upc' = "done" /\ UNCHANGED time_without_update
         ELSE upc' = "L1" /\ time_without_update' = 0
    /\ UNCHANGED <<reqVars, mgrVars, ifVars, reapVars, flagVars, callVars,
                   cacheVars, mainVars, stop_flag, now>>

(***************************************************************************)
(* The main thread: the execution loop (dockerhood.py:158-184), with       *)
(* RequestManager.get_next_request (requests.py:219-245) and               *)
(* Request.execute (requests.py:61-86)                                     *)
(***************************************************************************)
\* self._request_lock.acquire()   (requests.py:226)
get_next_request_acquire ==
    /\ Alive
    /\ mpc = "next"
    /\ _request_lock = None
    /\ _request_lock' = MAIN
    /\ mpc' = "pop"
    /\ UNCHANGED <<reqVars, _request_deque, _request_dict, appended, dequeued, ifVars,
                   reapVars, flagVars, updVars, callVars, cacheVars, request, interrupted,
                   stop_flag, now>>


\* get_next_request_pop taking the newest request (pop) and not the oldest
\* (popleft)
get_next_request_pop_right ==
    /\ Alive
    /\ mpc = "pop"
    /\ IF _request_deque = <<>>
         THEN /\ request' = Absent
              /\ mpc' = "release"
              /\ UNCHANGED <<_request_deque, dequeued>>
       ELSE LET last == _request_deque[Len(_request_deque)] IN
            /\ _request_deque' = SubSeq(_request_deque, 1,
                                        Len(_request_deque) - 1)
            /\ IF last \in _request_dict
                 THEN /\ request' = last
                      /\ dequeued' = [dequeued EXCEPT ![last] = Min(@ + 1, 2)]
                      /\ mpc' = "release"
                 ELSE /\ request' = Absent
                      /\ mpc' = "crashed"
                      /\ UNCHANGED dequeued
    /\ UNCHANGED <<reqVars, _request_dict, _request_lock, appended, ifVars,
                   reapVars, flagVars, updVars, callVars, cacheVars,
                   interrupted, stop_flag, now>>

\* get_next_request_pop reading the head of the queue without removing it
get_next_request_pop_peek ==
    /\ Alive
    /\ mpc = "pop"
    /\ IF _request_deque = <<>>
         THEN /\ request' = Absent
              /\ mpc' = "release"
              /\ UNCHANGED dequeued
       ELSE IF Head(_request_deque) \in _request_dict
         THEN /\ request' = Head(_request_deque)
              /\ dequeued' = [dequeued EXCEPT
                                 ![Head(_request_deque)] = Min(@ + 1, 2)]
              /\ mpc' = "release"
       ELSE /\ request' = Absent
            /\ mpc' = "crashed"
            /\ UNCHANGED dequeued
    /\ UNCHANGED <<reqVars, _request_deque, _request_dict, _request_lock,
                   appended, ifVars, reapVars, flagVars, updVars, callVars,
                   cacheVars, interrupted, stop_flag, now>>

\* popleft, or IndexError, and the look-up in the dictionary
\* (requests.py:229-239)
get_next_request_pop ==
    /\ Alive
    /\ mpc = "pop"
    /\ IF _request_deque = <<>>
         THEN /\ request' = Absent
              /\ mpc' = "release"
              /\ UNCHANGED <<_request_deque, dequeued>>
       ELSE /\ _request_deque' = Tail(_request_deque)
            /\ IF Head(_request_deque) \in _request_dict
                 THEN /\ request' = Head(_request_deque)
                      /\ dequeued' = [dequeued EXCEPT
                                         ![Head(_request_deque)] = Min(@ + 1, 2)]
                      /\ mpc' = "release"
                 ELSE \* KeyError at requests.py:239 ends the main thread
                      /\ request' = Absent
                      /\ mpc' = "crashed"
                      /\ UNCHANGED dequeued
    /\ UNCHANGED <<reqVars, _request_dict, _request_lock, appended, ifVars,
                   reapVars, flagVars, updVars, callVars, cacheVars,
                   interrupted, stop_flag, now>>

\* get_next_request_release with the lock kept when a request is returned: the
\* main thread holds it while it executes the request
get_next_request_release_keeplock ==
    /\ Alive
    /\ mpc = "release"
    /\ _request_lock' = IF request = Absent THEN None ELSE _request_lock
    /\ mpc' = IF request = Absent THEN "next" ELSE "pause"
    /\ UNCHANGED <<reqVars, _request_deque, _request_dict, appended, dequeued, ifVars,
                   reapVars, flagVars, updVars, callVars, cacheVars, request,
                   interrupted, stop_flag, now>>

\* self._request_lock.release() and return; `if request is None: sleep(0.1);
\* continue'   (requests.py:242-245, dockerhood.py:161-163)
get_next_request_release ==
    /\ Alive
    /\ mpc = "release"
    /\ _request_lock' = None
    /\ mpc' = IF request = Absent THEN "next" ELSE "pause"
    /\ UNCHANGED <<reqVars, _request_deque, _request_dict, appended, dequeued, ifVars,
                   reapVars, flagVars, updVars, callVars, cacheVars, request, interrupted,
                   stop_flag, now>>

\* status_updater.pause()   (dockerhood.py:167)
main_pause ==
    /\ Alive
    /\ mpc = "pause"
    /\ pause
    /\ mpc' = "execute"
    /\ UNCHANGED <<reqVars, mgrVars, ifVars, reapVars, _update_now, _executed,
                   updVars, callVars, cacheVars, request, interrupted, stop_flag, now>>


\* execute_status with the assignment of EXECUTING left out
execute_status_skipped ==
    /\ Alive
    /\ mpc = "execute"
    /\ mpc' = "call"
    /\ UNCHANGED <<reqVars, mgrVars, ifVars, reapVars, flagVars, updVars,
                   callVars, cacheVars, request, interrupted, stop_flag, now>>

\* self.status = Request.EXECUTING   (requests.py:71)
execute_status ==
    /\ Alive
    /\ mpc = "execute"
    /\ status' = [status EXCEPT ![request] = EXECUTING]
    /\ mpc' = "call"
    /\ UNCHANGED <<answer, creation_time, err_mesg, outcome, running, calls, finished,
                   mgrVars, ifVars, reapVars, flagVars, updVars, callVars,
                   cacheVars, request, interrupted, stop_flag, now>>


\* execute_call with the action started in the background: the loop goes on
\* to the next request without waiting for action() to end
execute_call_background ==
    /\ Alive
    /\ mpc = "call"
    /\ running' = running \cup {request}
    /\ calls' = [calls EXCEPT ![request] = @ + 1]
    /\ mpc' = "next"
    /\ UNCHANGED <<status, answer, creation_time, err_mesg, outcome, finished, mgrVars,
                   ifVars, reapVars, flagVars, updVars, callVars, cacheVars,
                   request, interrupted, stop_flag, now>>

\* self.action() is called   (requests.py:74)
execute_call ==
    /\ Alive
    /\ mpc = "call"
    /\ running' = running \cup {request}
    /\ calls' = [calls EXCEPT ![request] = @ + 1]
    /\ mpc' = "action"
    /\ UNCHANGED <<status, answer, creation_time, err_mesg, outcome, finished, mgrVars,
                   ifVars, reapVars, flagVars, updVars, callVars, cacheVars,
                   request, interrupted, stop_flag, now>>

\* self.action() returns, and its value is stored in self.answer, or it
\* raises   (requests.py:74, 77, 80)
execute_action ==
    /\ Alive
    /\ mpc = "action"
    /\ \E kind \in ActionKinds :
          /\ outcome' = [outcome EXCEPT ![request] = kind]
          /\ answer' = IF kind = "return"
                         THEN [answer EXCEPT ![request] = AnswerOf(kind)]
                         ELSE answer
          /\ mpc' = CASE kind = "return" -> "executed"
                      [] kind = "raise" -> "except"
                      [] OTHER -> "except_exit"
    /\ running' = running \ {request}
    /\ finished' = [finished EXCEPT ![request] = Infra + 1]
    /\ UNCHANGED <<status, creation_time, err_mesg, calls, mgrVars, ifVars, reapVars,
                   flagVars, updVars, callVars, cacheVars, request, interrupted, stop_flag,
                   now>>


\* execute_executed with the call of status_updater.update() left out: the
\* main thread goes straight to unpause()
execute_executed_noupdate ==
    /\ Alive
    /\ mpc = "executed"
    /\ status' = [status EXCEPT ![request] = EXECUTED]
    /\ mpc' = "update"
    /\ UNCHANGED <<answer, creation_time, err_mesg, outcome, running, calls, finished,
                   mgrVars, ifVars, reapVars, flagVars, updVars, callVars,
                   cacheVars, request, interrupted, stop_flag, now>>

\* self.status = Request.EXECUTED; execute() returns and the main thread
\* enters status_updater.update()   (requests.py:75, dockerhood.py:169)
execute_executed ==
    /\ Alive
    /\ mpc = "executed"
    /\ status' = [status EXCEPT ![request] = EXECUTED]
    /\ update_call(MAIN)
    /\ mpc' = "update"
    /\ UNCHANGED <<answer, creation_time, err_mesg, outcome, running, calls, finished,
                   mgrVars, ifVars, reapVars, flagVars, updVars, update_lock,
                   cacheVars, request, interrupted, stop_flag, now>>


\* execute_except with the error raised again after the answer is stored: it
\* leaves execute() and the loop of the main thread
execute_except_reraise ==
    /\ Alive
    /\ mpc = "except"
    /\ \E tb \in Tracebacks :
          /\ err_mesg' = [err_mesg EXCEPT ![request] = tb]
          /\ answer' = [answer EXCEPT ![request] = traceback_lines(tb)[
                                        Len(traceback_lines(tb))]]
    /\ mpc' = "stop_threads"
    /\ UNCHANGED <<status, creation_time, outcome, running, calls, finished,
                   mgrVars, ifVars, reapVars, flagVars, updVars, callVars,
                   cacheVars, request, interrupted, stop_flag, now>>

\* execute_except with the empty lines of the traceback kept: the answer is
\* the last line of err_mesg.split('\n'), whatever it holds
execute_except_lastline ==
    /\ Alive
    /\ mpc = "except"
    /\ \E tb \in Tracebacks :
          /\ err_mesg' = [err_mesg EXCEPT ![request] = tb]
          /\ answer' = [answer EXCEPT ![request] = tb[Len(tb)]]
    /\ mpc' = "error"
    /\ UNCHANGED <<status, creation_time, outcome, running, calls, finished,
                   mgrVars, ifVars, reapVars, flagVars, updVars, callVars,
                   cacheVars, request, interrupted, stop_flag, now>>

\* execute_except without `self.answer = traceback_lines[-1]': the status
\* becomes ERROR while the answer is still None
execute_except_noanswer ==
    /\ Alive
    /\ mpc = "except"
    /\ \E tb \in Tracebacks :
          err_mesg' = [err_mesg EXCEPT ![request] = tb]
    /\ mpc' = "error"
    /\ UNCHANGED <<status, answer, creation_time, outcome, running, calls, finished,
                   mgrVars, ifVars, reapVars, flagVars, updVars, callVars,
                   cacheVars, request, interrupted, stop_flag, now>>

\* except: err_mesg = traceback.format_exc();
\* traceback_lines = [l for l in err_mesg.split('\n') if l != ''];
\* self.answer = traceback_lines[-1]   (requests.py:80-85)
execute_except ==
    /\ Alive
    /\ mpc = "except"
    /\ \E tb \in Tracebacks :
          /\ err_mesg' = [err_mesg EXCEPT ![request] = tb]
          /\ answer' = [answer EXCEPT ![request] = traceback_lines(tb)[
                                        Len(traceback_lines(tb))]]
    /\ mpc' = "error"
    /\ UNCHANGED <<status, creation_time, outcome, running, calls, finished,
                   mgrVars, ifVars, reapVars, flagVars, updVars, callVars,
                   cacheVars, request, interrupted, stop_flag, now>>

\* execute_error with the failed request put back to PENDING
execute_error_pending ==
    /\ Alive
    /\ mpc = "error"
    /\ status' = [status EXCEPT ![request] = PENDING]
    /\ update_call(MAIN)
    /\ mpc' = "update"
    /\ UNCHANGED <<answer, creation_time, err_mesg, outcome, running, calls, finished,
                   mgrVars, ifVars, reapVars, flagVars, updVars, update_lock,
                   cacheVars, request, interrupted, stop_flag, now>>

\* self.status = Request.ERROR; execute() returns and the main thread
\* enters status_updater.update()   (requests.py:86, dockerhood.py:169)
execute_error ==
    /\ Alive
    /\ mpc = "error"
    /\ status' = [status EXCEPT ![request] = ERROR]
    /\ update_call(MAIN)
    /\ mpc' = "update"
    /\ UNCHANGED <<answer, creation_time, err_mesg, outcome, running, calls, finished,
                   mgrVars, ifVars, reapVars, flagVars, updVars, update_lock,
                   cacheVars, request, interrupted, stop_flag, now>>


\* execute_SystemExit with the request marked ERROR, as for any other error
execute_SystemExit_error ==
    /\ Alive
    /\ mpc = "except_exit"
    /\ status' = [status EXCEPT ![request] = ERROR]
    /\ mpc' = "stop_threads"
    /\ UNCHANGED <<answer, creation_time, err_mesg, outcome, running, calls,
                   finished, mgrVars, ifVars, reapVars, flagVars, updVars,
                   callVars, cacheVars, request, interrupted, stop_flag, now>>

\* except SystemExit: self.status = Request.EXECUTED; raise
\* (requests.py:77-79), caught at dockerhood.py:172
execute_SystemExit ==
    /\ Alive
    /\ mpc = "except_exit"
    /\ status' = [status EXCEPT ![request] = EXECUTED]
    /\ mpc' = "stop_threads"
    /\ UNCHANGED <<answer, creation_time, err_mesg, outcome, running, calls, finished,
                   mgrVars, ifVars, reapVars, flagVars, updVars, callVars,
                   cacheVars, request, interrupted, stop_flag, now>>


\* main_unpause called without waiting for update() to return
main_unpause_early ==
    /\ Alive
    /\ mpc = "update"
    /\ unpause
    /\ mpc' = "next"
    /\ UNCHANGED <<reqVars, mgrVars, ifVars, reapVars, _update_now, _executed,
                   updVars, callVars, cacheVars, request, interrupted,
                   stop_flag, now>>

\* status_updater.unpause(), once update() has returned (dockerhood.py:170)
main_unpause ==
    /\ Alive
    /\ mpc = "update"
    /\ ucall[MAIN] = "out"
    /\ unpause
    /\ mpc' = "next"
    /\ UNCHANGED <<reqVars, mgrVars, ifVars, reapVars, _update_now, _executed,
                   updVars, callVars, cacheVars, request, interrupted, stop_flag, now>>


\* KeyboardInterrupt reaches the main thread while it is between two calls
\* of get_next_request, where it spends its idle time in sleep(0.1): the
\* handler of dockerhood.py:185-193 runs stop_threads().  (Raised while an
\* action runs, it is caught by the bare `except:' of requests.py:80 and is
\* one of the errors of execute_except.)
KeyboardInterrupt_idle ==
    /\ Alive
    /\ mpc = "next"
    /\ interrupted' = TRUE
    /\ mpc' = "stop_threads"
    /\ UNCHANGED <<reqVars, mgrVars, ifVars, reapVars, flagVars, updVars,
                   callVars, cacheVars, request, stop_flag, now>>


\* StopExecutionFlag_set as a toggle: a second call lowers the flag again
StopExecutionFlag_toggle == stop_flag' = ~stop_flag

\* StopExecutionFlag.set   (dockerhood.py:66-67)
StopExecutionFlag_set == stop_flag' = TRUE


\* stop_threads_set with the main thread going back to its loop once the flag
\* is set
stop_threads_set_resume ==
    /\ Alive
    /\ mpc = "stop_threads"
    /\ StopExecutionFlag_set
    /\ mpc' = "next"
    /\ UNCHANGED <<reqVars, mgrVars, ifVars, reapVars, flagVars, updVars,
                   callVars, cacheVars, request, interrupted, now>>

\* stop_execution.set(), called by stop_threads (dockerhood.py:123)
stop_threads_set ==
    /\ Alive
    /\ mpc = "stop_threads"
    /\ StopExecutionFlag_set
    /\ mpc' = "join"
    /\ UNCHANGED <<reqVars, mgrVars, ifVars, reapVars, flagVars, updVars,
                   callVars, cacheVars, request, interrupted, now>>

\* every thrd.join(5) has returned, the thread stopped or not, and the main
\* thread ends: the process ends with it   (dockerhood.py:125-184)
stop_threads_join ==
    /\ mpc = "join"
    /\ mpc' = "exited"
    /\ UNCHANGED <<reqVars, mgrVars, ifVars, reapVars, flagVars, updVars,
                   callVars, cacheVars, request, interrupted, stop_flag, now>>

(***************************************************************************)
(* The program                                                             *)
(***************************************************************************)
InterfaceStep ==
    \E i \in Interfaces :
        \/ create_request_construct(i)
        \/ create_request_acquire(i)
        \/ create_request_append(i)
        \/ create_request_insert(i)
        \/ create_request_release(i)

ReaperStep ==
    \/ RequestManager_run_tick
    \/ RequestManager_run_acquire
    \/ RequestManager_run_walk
    \/ RequestManager_run_release

UpdaterStep ==
    \/ StatusUpdater_run_L1
    \/ StatusUpdater_run_S1
    \/ StatusUpdater_run_U1
    \/ StatusUpdater_run_E1
    \/ StatusUpdater_run_P1
    \/ StatusUpdater_run_raise
    \/ StatusUpdater_run_L2
    \/ StatusUpdater_run_S2
    \/ StatusUpdater_run_U2
    \/ StatusUpdater_run_E2
    \/ StatusUpdater_run_L3

\* the steps of a thread inside StatusUpdater.update()
UpdateStep(t) ==
    \/ update_acquire(t)
    \/ update_request(t)
    \/ update_wait(t)
    \/ update_reset(t)
    \/ update_release(t)

MainStep ==
    \/ get_next_request_acquire
    \/ get_next_request_pop
    \/ get_next_request_release
    \/ main_pause
    \/ execute_status
    \/ execute_call
    \/ execute_action
    \/ execute_executed
    \/ execute_except
    \/ execute_error
    \/ execute_SystemExit
    \/ UpdateStep(MAIN)
    \/ main_unpause
    \/ KeyboardInterrupt_idle
    \/ stop_threads_set
    \/ stop_threads_join

Next ==
    \/ Tick
    \/ InterfaceStep
    \/ ReaperStep
    \/ UpdaterStep
    \/ MainStep

Spec == Init /\ [][Next]_vars

(***************************************************************************)
(* The StatusUpdater alone: its thread, and threads that call pause(),     *)
(* unpause() and update() in any order while the stop flag may be raised.  *)
(***************************************************************************)
\* a thread calls status_updater.pause()   (status.py:232-237)
caller_pause(c) ==
    /\ ucall[c] = "out"
    /\ pause
    /\ UNCHANGED <<reqVars, mgrVars, ifVars, reapVars, _update_now, _executed,
                   updVars, callVars, cacheVars, mainVars, stop_flag, now>>

\* a thread calls status_updater.unpause()   (status.py:239-244)
caller_unpause(c) ==
    /\ ucall[c] = "out"
    /\ unpause
    /\ UNCHANGED <<reqVars, mgrVars, ifVars, reapVars, _update_now, _executed,
                   updVars, callVars, cacheVars, mainVars, stop_flag, now>>

\* a thread calls status_updater.update()   (status.py:208-215)
caller_update(c) ==
    /\ ucall[c] = "out"
    /\ update_call(c)
    /\ UNCHANGED <<reqVars, mgrVars, ifVars, reapVars, flagVars, updVars,
                   update_lock, cacheVars, mainVars, stop_flag, now>>

\* the stop flag is raised   (dockerhood.py:66-67)
caller_stop ==
    /\ StopExecutionFlag_set
    /\ UNCHANGED <<reqVars, mgrVars, ifVars, reapVars, flagVars, updVars,
                   callVars, cacheVars, mainVars, now>>

CallerStep(c) ==
    \/ caller_pause(c)
    \/ caller_unpause(c)
    \/ caller_update(c)
    \/ UpdateStep(c)

NextUpdater ==
    \/ UpdaterStep
    \/ \E c \in Callers : CallerStep(c)
    \/ caller_stop

SpecUpdater == Init /\ [][NextUpdater]_vars

\* the updater thread runs, and so does a thread that is inside update()
FairUpdater ==
    /\ WF_vars(UpdaterStep)
    /\ \A c \in Callers : WF_vars(UpdateStep(c))

FairSpecUpdater == Init /\ [][NextUpdater]_vars /\ FairUpdater


(***************************************************************************)
(* The claims                                                              *)
(***************************************************************************)
\* the requests waiting in the FIFO, as a set
Queued == {_request_deque[k] : k \in 1..Len(_request_deque)}

\* a request that was appended and then evicted by a sweep before the main
\* thread took it: it is in no collection and in no thread's hands
Reaped(u) ==
    /\ u \notin _request_dict
    /\ u \notin Queued
    /\ \A k \in 1..Len(old_queue) : old_queue[k] # u
    /\ request # u
    /\ \A i \in Interfaces : ~(ireq[i] = u /\ ipc[i] # "idle")
    /\ status[u] = PENDING

\* C1: at most one request's action is being executed at any time, whatever
\* the interface threads do.
C1_OneActionAtATime == Cardinality(running) <= 1

\* C1 witness: an action is running while another request, created
\* meanwhile, waits in the FIFO
C1_Witness ==
    /\ Cardinality(running) = 1
    /\ \E u \in Queued : u \notin running /\ status[u] = PENDING

\* C2: requests are executed in the order create_request appended them: when
\* a request has left PENDING, every request appended before it is terminal
\* (or was evicted by the reaper and will never be executed).
C2_SubmissionOrder ==
    \A j \in 1..Len(appended) : \A i \in 1..(j - 1) :
        status[appended[j]] # PENDING
            => \/ status[appended[i]] \in Terminal
               \/ Reaped(appended[i])

\* C2 witness: two requests were appended in the order opposite to their
\* construction and both were executed
C2_Witness ==
    /\ Len(appended) >= 2
    /\ appended[1] > appended[2]
    /\ status[appended[1]] \in Terminal
    /\ status[appended[2]] \in Terminal

\* C3: no refresh of the status cache is in progress while a request's
\* action is executing.
C3_NoRefreshDuringAction == ~(running # {} /\ Refreshing)

\* C4: while the updater is paused, every _update() it begins answers a
\* pending update() request (_update_now), never the expired timer.
C4_NoPeriodicRefreshWhilePaused ==
    [][(_paused /\ ~Refreshing /\ Refreshing') => _update_now]_vars


\* C5: while the updater is active (not paused, stop flag not set) the cache
\* is refreshed periodically: from any state where it is active, a refresh
\* begins unless the updater is paused or stopped first.
C5_PeriodicWhileActive ==
    (~_paused /\ ~stop_flag) ~> (Refreshing \/ _paused \/ stop_flag)

\* C6: a thread that called update() while the updater was paused gets past
\* the wait of update() only after a refresh that began after its call has
\* run to completion.
C6_ForcedRefreshIsFresh ==
    \A t \in UpdateThreads :
        (paused_at_call[t] /\ ucall[t] \in {"reset", "release"})
            => fresh[t] = 2

\* C6 witness: a thread that called update() while the updater was paused has
\* been served and is about to return
C6_Witness ==
    \E t \in UpdateThreads :
        /\ paused_at_call[t]
        /\ ucall[t] = "release"
        /\ fresh[t] = 2

\* C7: update() is served whatever the state of the updater: a thread inside
\* update() eventually returns, unless the stop flag is raised.
C7_ForceRefreshServed ==
    \A c \in Callers : (ucall[c] # "out") ~> (ucall[c] = "out" \/ stop_flag)


\* the main thread is inside the update() that follows the execution of u
\* and has not yet seen the updater's completion signal
AwaitingRefresh(u) ==
    /\ request = u
    /\ mpc = "update"
    /\ ucall[MAIN] \in {"acquire", "request", "wait"}

\* C8 (as stated): whenever get_request_status shows a request as EXECUTED or
\* ERROR, the cache holds the result of a refresh that started after that
\* request's action finished.
C8_FreshWhenTerminal ==
    \A u \in _request_dict :
        get_request_status(u) \in Terminal => cacheGen >= finished[u]

\* C8 (amended): once the update() that the main thread calls after
\* execute() has seen the completion signal, the cache holds the result of a
\* refresh that started after that request's action finished (a request
\* ended by SystemExit gets no such refresh).
C8_FreshAfterUpdate ==
    \A u \in _request_dict :
        (/\ get_request_status(u) \in Terminal
         /\ outcome[u] # "exit"
         /\ ~AwaitingRefresh(u))
            => cacheGen >= finished[u]

\* C8 witness: update() is about to return for an executed request and the
\* cache was refreshed from the infrastructure as that request left it
C8_Witness ==
    \E u \in _request_dict :
        /\ get_request_status(u) \in Terminal
        /\ request = u /\ mpc = "update" /\ ucall[MAIN] = "release"
        /\ finished[u] > 0
        /\ cacheGen >= finished[u]

\* C9: the status of a request only moves PENDING -> EXECUTING -> EXECUTED
\* or ERROR; it never goes back and never changes once terminal.
C9_StatusMonotonic ==
    [][\A u \in Uuids :
          \/ status'[u] = status[u]
          \/ status[u] = Absent /\ status'[u] = PENDING
          \/ status[u] = PENDING /\ status'[u] = EXECUTING
          \/ status[u] = EXECUTING /\ status'[u] \in Terminal]_vars

\* C9 witness: one request ended in ERROR and another one in EXECUTED
C9_Witness ==
    \E u, v \in Uuids : status[u] = ERROR /\ status[v] = EXECUTED

\* at most one registered request is reported as EXECUTING
OneExecuting ==
    Cardinality({u \in _request_dict : get_request_status(u) = EXECUTING}) <= 1

\* C10 (as stated): get_request_status is PENDING at every moment before the
\* action is invoked, EXECUTING at every moment it runs, EXECUTED or ERROR at
\* every moment after it returned or raised; at most one is EXECUTING.
C10_ExecutingExactlyWhileRunning ==
    /\ \A u \in _request_dict :
          /\ calls[u] = 0 => get_request_status(u) = PENDING
          /\ u \in running => get_request_status(u) = EXECUTING
          /\ finished[u] > 0 => get_request_status(u) \in Terminal
    /\ OneExecuting

\* C10 (amended): get_request_status is EXECUTING at every moment the action
\* runs, PENDING only before the action is invoked, EXECUTED or ERROR only
\* after it returned or raised; at most one is EXECUTING.
C10_ExecutingWhileRunning ==
    /\ \A u \in _request_dict :
          /\ u \in running => get_request_status(u) = EXECUTING
          /\ get_request_status(u) = PENDING => calls[u] = 0
          /\ get_request_status(u) \in Terminal
                => (finished[u] > 0 /\ u \notin running)
    /\ OneExecuting

\* C10 witness: one action is running, reported EXECUTING, while another
\* registered request is still PENDING
C10_Witness ==
    \E u, v \in _request_dict :
        /\ u \in running /\ get_request_status(u) = EXECUTING
        /\ get_request_status(v) = PENDING


\* C11 (as stated): while a registered request is PENDING or EXECUTING,
\* get_answer returns None.
C11_NoAnswerBeforeTerminal ==
    \A u \in _request_dict :
        get_request_status(u) \in {PENDING, EXECUTING} => get_answer(u) = None

\* C11 (amended): get_answer returns None while the request is PENDING and
\* while its action has not ended; the answer is stored when the action has
\* ended, before the status becomes terminal.
C11_NoAnswerBeforeActionEnds ==
    \A u \in _request_dict :
        (get_request_status(u) = PENDING \/ finished[u] = 0)
            => get_answer(u) = None

\* C11 witness: an action is running and the answer of its request is None
C11_Witness ==
    \E u \in _request_dict :
        /\ u \in running
        /\ get_request_status(u) = EXECUTING
        /\ get_answer(u) = None

\* C12: when the action of a request raises an error other than SystemExit,
\* execute() catches it: the answer becomes the last non-empty line of the
\* traceback, then the status becomes ERROR (never EXECUTED), and the main
\* thread stays in its loop: it goes on to update(), unpause() and the next
\* call of get_next_request, and leaves the loop only if a KeyboardInterrupt
\* reaches it later.
C12_ErrorIsCaught ==
    \A u \in Uuids :
        outcome[u] = "raise" =>
            /\ status[u] \in {EXECUTING, ERROR}
            /\ status[u] = ERROR =>
                  /\ err_mesg[u] \in Tracebacks
                  /\ answer[u] # ""
                  /\ answer[u] = traceback_lines(err_mesg[u])[
                                      Len(traceback_lines(err_mesg[u]))]
                  /\ \A k \in 1..Len(err_mesg[u]) :
                        (err_mesg[u][k] = answer[u]) =>
                            \A j \in (k+1)..Len(err_mesg[u]) : err_mesg[u][j] = ""
            /\ status[u] = EXECUTING => (request = u /\ mpc \in {"except", "error"})
            /\ (request = u /\ mpc \notin {"except", "error"}) =>
                  /\ \/ mpc \in {"update", "next", "pop", "release"}
                     \/ interrupted /\ mpc \in {"stop_threads", "join", "exited"}
                  /\ _paused <=> mpc = "update"

\* C12 witness: a request whose action raised has status ERROR and its
\* one-line message as answer, and the main thread is back at
\* get_next_request with the updater unpaused
C12_Witness ==
    \E u \in Uuids :
        /\ outcome[u] = "raise"
        /\ get_request_status(u) = ERROR
        /\ get_answer(u) = "ValueError: boom"
        /\ request = u
        /\ mpc = "next"
        /\ ~_paused


\* C13: when the action of a request raises SystemExit, the request ends
\* with status EXECUTED and never ERROR, the exception leaves execute() and
\* the loop of the main thread (no update(), no unpause(), no further
\* request), and the stop flag is set before the threads are joined and the
\* process ends.
C13_SystemExitStops ==
    \A u \in Uuids :
        outcome[u] = "exit" =>
            /\ request = u
            /\ mpc \in {"except_exit", "stop_threads", "join", "exited"}
            /\ status[u] = IF mpc = "except_exit" THEN EXECUTING ELSE EXECUTED
            /\ ucall[MAIN] = "out"
            /\ _paused
            /\ mpc \in {"join", "exited"} => stop_flag
            /\ \A v \in Uuids \ {u} : v \notin running /\ status[v] # EXECUTING

\* C13 witness: the action of a request raised SystemExit, the request is
\* EXECUTED, the stop flag is set and the process has ended
C13_Witness ==
    \E u \in Uuids :
        /\ outcome[u] = "exit"
        /\ get_request_status(u) = EXECUTED
        /\ stop_flag
        /\ mpc = "exited"


\* the main thread has left the loop of dockerhood.py:158-170
LoopExited == mpc \in {"stop_threads", "join", "exited", "crashed"}

\* C14 (as stated): if the loop of the main thread has exited, then the
\* action of some request raised SystemExit.
C14_OnlySystemExitEndsLoop ==
    LoopExited => \E u \in Uuids : outcome[u] = "exit"

\* C14 (amended): the loop of the main thread ends only through one of its
\* two handlers: on SystemExit raised by the action of the request being
\* executed, or on a KeyboardInterrupt that reaches the main thread outside
\* Request.execute.  No failed action, empty queue, refresh or missing
\* request ends it.
C14_LoopEndsOnlyOnSignal ==
    /\ mpc # "crashed"
    /\ LoopExited =>
          \/ interrupted
          \/ request # Absent /\ outcome[request] = "exit"
    /\ ~interrupted /\ (\A u \in Uuids : outcome[u] # "exit") => ~LoopExited

\* C14 witness: the action of a request failed and the loop went on; it
\* ended later on a KeyboardInterrupt, no action having raised SystemExit
C14_Witness ==
    /\ mpc = "exited"
    /\ interrupted
    /\ \A u \in Uuids : outcome[u] # "exit"
    /\ \E u \in Uuids : outcome[u] = "raise" /\ status[u] = ERROR


\* the age a request had when the sweep in progress took the lock exceeded
\* discard_time
TooOldAtSweep(u) == sweep_time - creation_time[u] > discard_time

\* C15: when a sweep completes (the reaper releases the lock), no request
\* that was older than discard_time when the sweep began is left in the
\* dictionary or in the queue, whatever its status.
C15_SweepEvictsByAge ==
    [][(rpc = "walk" /\ rpc' = "tick") =>
          \A u \in _request_dict' \cup {_request_deque'[k] :
                                           k \in 1..Len(_request_deque')} :
              ~TooOldAtSweep(u)]_vars


\* C16 (as stated): a request whose age exceeds discard_time before the main
\* thread picks it up is never executed: get_next_request never returns a
\* request that is already older than discard_time.
C16_NeverPickedUpWhenTooOld ==
    [][(mpc = "pop" /\ mpc' = "release" /\ request' # Absent)
          => ~TooOld(request')]_vars

\* C16 (amended): a request that a sweep found older than discard_time while
\* it was still in the queue is unknown to get_request_status and to
\* get_answer from then on, is in no queue and in no thread's hands, and its
\* action has not been and is never called.
C16_EvictedNeverExecuted ==
    \A u \in evicted :
        /\ get_request_status(u) = Absent
        /\ get_answer(u) = None
        /\ Reaped(u)
        /\ calls[u] = 0
        /\ u \notin running
        /\ outcome[u] = None

\* C16 witness: a request was evicted by a sweep before the main thread took
\* it, and the main thread has since executed a later request
C16_Witness ==
    \E u \in evicted : \E v \in Uuids :
        /\ get_request_status(u) = Absent
        /\ calls[u] = 0
        /\ v # u
        /\ get_request_status(v) \in Terminal


\* the ids create_request has returned to an interface thread
Returned ==
    {u \in Uuids : /\ status[u] # Absent
                   /\ \A i \in Interfaces : ~(ireq[i] = u /\ ipc[i] # "idle")}

\* C17: a request is known from the moment create_request returns its id
\* until a sweep finds it older than discard_time.  In every state a
\* returned id unknown to get_request_status was evicted by a sweep; and an
\* entry leaves the dictionary only in a step of the sweep, for a request
\* whose age is then strictly greater than discard_time: one of age
\* discard_time or less is kept, in the dictionary and in the queue.
C17_ReachableUntilSwept ==
    /\ [](\A u \in Returned : get_request_status(u) = Absent => u \in evicted)
    /\ [][\A u \in _request_dict \ _request_dict' :
              /\ rpc = "walk"
              /\ u = Head(old_queue)
              /\ now - creation_time[u] > discard_time
              /\ u \in evicted']_vars
    /\ [][(/\ rpc = "walk"
           /\ old_queue # <<>>
           /\ old_queue' = Tail(old_queue)
           /\ now - creation_time[Head(old_queue)] <= discard_time)
              => /\ Head(old_queue) \in _request_dict'
                 /\ _request_deque' = Append(_request_deque, Head(old_queue))
         ]_vars

\* C17 witness: at the end of a sweep, lock still held, one request has been
\* evicted and another, of age exactly discard_time, has been walked and
\* kept
C17_Witness ==
    /\ rpc = "walk"
    /\ old_queue = <<>>
    /\ \E u \in evicted : \E v \in Queued :
          /\ u \in Returned
          /\ get_request_status(u) = Absent
          /\ now - creation_time[v] = discard_time
          /\ get_request_status(v) = PENDING


\* C18: whenever the request lock is free, every id of the queue has an
\* entry in the dictionary and is in the queue once; and neither
\* get_next_request nor the sweep ever looks up an id that is missing from
\* the dictionary (the KeyError of requests.py:170 and requests.py:239).
C18_QueueWithinDict ==
    /\ _request_lock = None =>
          /\ Queued \subseteq _request_dict
          /\ Cardinality(Queued) = Len(_request_deque)
    /\ rpc # "crashed"
    /\ mpc # "crashed"
    /\ (rpc = "walk" /\ old_queue # <<>>) => Head(old_queue) \in _request_dict
    /\ (mpc = "pop" /\ _request_deque # <<>>)
          => Head(_request_deque) \in _request_dict

\* C18 witness: the lock is free after a sweep that evicted one request and
\* kept another, which is in the queue and in the dictionary
C18_Witness ==
    /\ _request_lock = None
    /\ evicted # {}
    /\ _request_deque # <<>>
    /\ Queued \subseteq _request_dict


\* C19: two consecutive sweeps are separated by at least SweepAfter ticks of
\* RequestManager.run (3600 seconds), as the first sweep is from the start:
\* whenever the reaper is about to sweep, at least SweepAfter ticks have
\* passed since the previous sweep began.
C19_SweepsOneHourApart == rpc = "acquire" => since_sweep >= SweepAfter


\* C20: the stop flag is false initially and no step takes it from true back
\* to false, however many times set() is called.
C20_StopFlagWriteOnce ==
    /\ ~stop_flag
    /\ [][stop_flag => stop_flag']_vars

\* C20 witness: the flag has been set and the updater thread has seen it and
\* left its loop
C20_Witness == stop_flag /\ upc = "done"


\* how far a position of StatusUpdater.run is from the end of the thread
\* once the stop flag is set: the statements of status.py:175-202 in the
\* order the thread can still go through them, a refresh in progress first
StopDistance(pc) ==
    CASE pc = "U1" -> 9
      [] pc = "E1" -> 8
      [] pc = "P1" -> 8
      [] pc = "L1" -> 7
      [] pc = "S1" -> 6
      [] pc = "U2" -> 7
      [] pc = "E2" -> 6
      [] pc = "L2" -> 5
      [] pc = "S2" -> 4
      [] pc = "L3" -> 3
      [] OTHER -> 0

\* C21: once the stop flag is set, the reaper ends at its next tick without
\* sweeping, queue and dictionary unchanged, and every step of the updater
\* thread brings it closer to the end of run(), paused or not, without
\* beginning a refresh: it ends within the two polling ticks of S1 and S2.
C21_LoopsStopOnFlag ==
    /\ [][(stop_flag /\ rpc = "tick" /\ rpc' # rpc) =>
             /\ rpc' = "done"
             /\ UNCHANGED <<_request_deque, _request_dict>>]_vars
    /\ [][(stop_flag /\ upc' # upc) =>
             /\ StopDistance(upc') < StopDistance(upc)
             /\ upc' \in RefreshPcs => upc \in RefreshPcs]_vars
    /\ [](rpc = "done" \/ upc = "done" => stop_flag)

\* C21 witness: the main thread left the updater paused after a SystemExit
\* and set the stop flag; both loops have ended before the process does, a
\* pending request being left in the queue
C21_Witness ==
    /\ stop_flag
    /\ _paused
    /\ mpc = "join"
    /\ rpc = "done"
    /\ upc = "done"
    /\ _request_deque # <<>>
    /\ \A k \in 1..Len(_request_deque) : status[_request_deque[k]] = PENDING


\* C22: a thread that is waiting inside update() when the stop flag is set
\* eventually returns from update().
C22_UpdateReturnsOnStop ==
    \A c \in Callers : (stop_flag /\ ucall[c] = "wait") ~> (ucall[c] = "out")


\* C23: a refresh that fails does not end the updater thread.
C23_UpdaterSurvivesFailure == upc # "crashed"


\* C24: whatever an interface thread reads from the DockerhoodStatus object
\* is what the last completed refresh wrote: the fields written first
\* (linker) hold the value the last completed refresh gave them, and they
\* are never ahead of the fields written last (workers).
C24_ReaderSeesLastCompleted ==
    /\ cache.linker = cacheGen
    /\ Refreshing => cache.linker = cache.workers


\* a step of the thread that holds the request lock
LockHolderStep ==
    \/ get_next_request_pop
    \/ get_next_request_release
    \/ RequestManager_run_walk
    \/ RequestManager_run_release
    \/ \E i \in Interfaces :
          \/ create_request_append(i)
          \/ create_request_insert(i)
          \/ create_request_release(i)

\* C25: create_request never waits for an execution.  The request lock is
\* never held by the thread that executes an action or waits in update(),
\* nor by the updater thread: the main thread holds it only inside
\* get_next_request, the reaper only inside its sweep, an interface thread
\* only between the acquire and the release of create_request; and whoever
\* holds it can always take its next step, so the lock is released without
\* waiting for an action or a refresh to end.
C25_LockNeverHeldAcrossExecution ==
    /\ _request_lock = MAIN <=> mpc \in {"pop", "release"}
    /\ _request_lock = "reaper" <=> (rpc = "walk")
    /\ \A i \in Interfaces :
          _request_lock = i <=> ipc[i] \in {"append", "insert", "release"}
    /\ (running # {} \/ ucall[MAIN] # "out") => _request_lock # MAIN
    /\ (Alive /\ _request_lock # None) => ENABLED LockHolderStep

\* C25 witness: while an action is running and a refresh is in progress, an
\* interface thread is inside create_request with the lock, about to return
\* the id
C25_Witness ==
    /\ running # {}
    /\ Refreshing
    /\ \E i \in Interfaces : _request_lock = i /\ ipc[i] = "release"


\* C26 (as stated): for a registered request neither get_request_status nor
\* get_answer returns None.
C26_NoneOnlyWhenUnknown ==
    \A u \in _request_dict :
        get_request_status(u) # Absent /\ get_answer(u) # None

\* C26 (amended): get_request_status returns None exactly for an id that is
\* not in the dictionary (never registered, or evicted), and one of the four
\* statuses otherwise.  get_answer returns None for such an id, and also for
\* a registered request whose answer is not stored: its action has not
\* ended, or ended with SystemExit, or its error message is not yet stored.
C26_NoneStatusOnlyWhenUnknown ==
    \A u \in Uuids :
        /\ get_request_status(u) = Absent <=> u \notin _request_dict
        /\ u \in _request_dict =>
              get_request_status(u) \in {PENDING, EXECUTING, EXECUTED, ERROR}
        /\ get_answer(u) = None <=>
              \/ u \notin _request_dict
              \/ finished[u] = 0
              \/ outcome[u] = "exit"
              \/ outcome[u] = "raise" /\ request = u /\ mpc = "except"

\* C26 witness: one id has been evicted and both look-ups return None for
\* it, another is registered and both return a value
C26_Witness ==
    \E u \in evicted : \E v \in _request_dict :
        /\ get_request_status(u) = Absent
        /\ get_answer(u) = None
        /\ get_request_status(v) = EXECUTED
        /\ get_answer(v) = "ok"


\* C27: the action of a request is invoked exactly once.  No uuid is
\* returned twice by get_next_request, no action is called twice, a uuid
\* that was returned is in no queue any more, and once the main thread is
\* past the call in execute() the action of the request it holds has been
\* called once.
C27_InvokedExactlyOnce ==
    \A u \in Uuids :
        /\ dequeued[u] <= 1
        /\ calls[u] <= dequeued[u]
        /\ dequeued[u] = 1 =>
              /\ u \notin Queued
              /\ \A k \in 1..Len(old_queue) : old_queue[k] # u
              /\ calls[u] = 1 \/ (request = u /\ mpc \in {"release", "pause",
                                                           "execute", "call"})

\* C27 witness: every request went through get_next_request and its action
\* was called once, and the reaper has rebuilt the queue in a sweep
C27_Witness ==
    /\ \A u \in Uuids : dequeued[u] = 1 /\ calls[u] = 1
    /\ time_passed = SweepAfter
    /\ rpc = "tick"
    /\ since_sweep < SweepAfter


\* C28: once the stop flag is set the main thread starts no request.  The
\* flag is set only by stop_threads(), after the loop has been left: from
\* then on the main thread is joining the threads or has ended, no status
\* becomes EXECUTING, no action is called, and the requests of the queue
\* stay PENDING.
C28_NoExecutionAfterStop ==
    /\ [](stop_flag => mpc \in {"join", "exited"})
    /\ [](stop_flag => \A u \in Queued : status[u] = PENDING /\ calls[u] = 0)
    /\ [][stop_flag =>
             /\ \A u \in Uuids : status'[u] = EXECUTING => status[u] = EXECUTING
             /\ calls' = calls
             /\ \A u \in Queued : status'[u] = PENDING]_vars

\* C28 witness: the stop flag is set and the process has ended with a
\* request still in the queue, PENDING, its action never called
C28_Witness ==
    /\ stop_flag
    /\ mpc = "exited"
    /\ \E u \in Queued : get_request_status(u) = PENDING /\ calls[u] = 0


\* the requests enqueued before request x, and those enqueued after it
EnqueuedBefore(x) ==
    {appended[j] : j \in {j \in 1..Len(appended) :
                             \E k \in 1..Len(appended) :
                                 j < k /\ appended[k] = x}}
EnqueuedAfter(x) ==
    {appended[j] : j \in {j \in 1..Len(appended) :
                             \E k \in 1..Len(appended) :
                                 k < j /\ appended[k] = x}}

\* C29: when the action of a request is the exit of the console (it raises
\* SystemExit), every request that was enqueued before it has been evicted
\* or has reached EXECUTED or ERROR by the time that action ends, and every
\* request enqueued after it stays PENDING, its action never called.
C29_ExitAfterPendingOperations ==
    \A x \in Uuids :
        outcome[x] = "exit" =>
            /\ \A u \in EnqueuedBefore(x) :
                  u \in evicted \/ (status[u] \in Terminal /\ calls[u] = 1)
            /\ \A v \in EnqueuedAfter(x) :
                  status[v] = PENDING /\ calls[v] = 0 /\ v \notin running

\* C29 witness: the exit request has ended the program after the request
\* enqueued before it was executed
C29_Witness ==
    \E x \in Uuids :
        /\ outcome[x] = "exit"
        /\ mpc = "exited"
        /\ \E u \in EnqueuedBefore(x) : get_request_status(u) \in Terminal


\* C30: pause() and unpause() are idempotent.  A call of pause() leaves the
\* updater paused and changes nothing else; called when the updater is
\* already paused it changes nothing at all.  Likewise unpause() leaves it
\* active, so pause() followed by unpause() gives the active state back;
\* neither changes _update_now, _executed, the cache or the position of the
\* updater thread.
C30_PauseUnpauseIdempotent ==
    [][/\ (\E c \in Callers : caller_pause(c)) =>
             /\ _paused' = TRUE
             /\ _paused => UNCHANGED vars
             /\ UNCHANGED <<_update_now, _executed, cache, upc,
                            time_without_update, update_lock, ucall>>
       /\ (\E c \in Callers : caller_unpause(c)) =>
             /\ _paused' = FALSE
             /\ ~_paused => UNCHANGED vars
             /\ UNCHANGED <<_update_now, _executed, cache, upc,
                            time_without_update, update_lock, ucall>>
      ]_vars

\* C30 witness: pause() then unpause() have been called: the updater thread
\* is inside the loop it enters only when paused, and the flag is back to
\* active with no update requested or signalled
C30_Witness ==
    /\ ~_paused
    /\ upc = "S1"
    /\ ~_update_now
    /\ ~_executed


\* the positions of the main thread from pause() to the return of update()
Executing == {"execute", "call", "action", "executed", "except", "error",
              "except_exit", "update"}

\* C31: for each request the main thread pauses the updater, executes the
\* action, has a refresh made after the action ended, unpauses, and only
\* then takes the next request.  The updater is paused exactly from pause()
\* to unpause() (or to the end, after SystemExit); the action runs and
\* update() is called only in between, for the one request in hand;
\* unpause() is called only when update() has returned after a refresh that
\* began after its call; a request is dequeued only with the updater
\* unpaused; and when get_next_request returns None the main thread goes
\* back to get_next_request without pause() or update().
C31_StepsInOrder ==
    /\ [](mpc \in Executing => _paused /\ request # Absent)
    /\ [](mpc \in {"next", "pop", "release", "pause"} =>
             ~_paused /\ ucall[MAIN] = "out")
    /\ [](ucall[MAIN] # "out" =>
             /\ mpc = "update"
             /\ finished[request] > 0
             /\ status[request] \in Terminal)
    /\ [](\A u \in Uuids :
             (u \in running \/ status[u] = EXECUTING) =>
                 (request = u /\ mpc \in Executing))
    /\ [][(mpc = "update" /\ mpc' = "next") =>
             /\ ucall[MAIN] = "out"
             /\ fresh[MAIN] = 2
             /\ cacheGen >= finished[request]
             /\ _paused /\ ~_paused'
             /\ request' = request]_vars
    /\ [][(mpc = "pop" /\ request' # request /\ request' # Absent) =>
             ~_paused /\ ucall[MAIN] = "out"]_vars
    /\ [][(mpc = "release" /\ request = Absent /\ mpc' # mpc) =>
             /\ mpc' = "next"
             /\ UNCHANGED <<_paused, _update_now, _executed, ucall>>]_vars

\* C31 witness: a first request went through pause, execute, update and
\* unpause, and the main thread has now paused the updater for the second
C31_Witness ==
    \E u \in Uuids :
        /\ status[u] \in Terminal
        /\ cacheGen >= finished[u]
        /\ request # Absent
        /\ request # u
        /\ mpc = "execute"
        /\ _paused


(***************************************************************************)
(* The program while it keeps running: every action returns or raises an   *)
(* error other than SystemExit, no refresh raises, no KeyboardInterrupt    *)
(* arrives, so that stop_threads() is never called; and every thread is    *)
(* scheduled.  A thread that waits for the request lock gets it: each of   *)
(* the other threads holds it for a few statements and sleeps between two  *)
(* acquisitions (requests.py:148, dockerhood.py:162, console.py:316).      *)
(***************************************************************************)
\* the steps of the main thread inside its loop
MainLoopStep ==
    \/ get_next_request_acquire
    \/ get_next_request_pop
    \/ get_next_request_release
    \/ main_pause
    \/ execute_status
    \/ execute_call
    \/ execute_action /\ outcome'[request] # "exit"
    \/ execute_executed
    \/ execute_except
    \/ execute_error
    \/ UpdateStep(MAIN)
    \/ main_unpause

\* the steps of the updater thread when no refresh raises
UpdaterLoopStep ==
    \/ StatusUpdater_run_L1
    \/ StatusUpdater_run_S1
    \/ StatusUpdater_run_U1
    \/ StatusUpdater_run_E1
    \/ StatusUpdater_run_P1
    \/ StatusUpdater_run_L2
    \/ StatusUpdater_run_S2
    \/ StatusUpdater_run_U2
    \/ StatusUpdater_run_E2
    \/ StatusUpdater_run_L3

\* the clock stands still: the run is shorter than one unit of discard_time
NextRunning ==
    \/ InterfaceStep
    \/ ReaperStep
    \/ UpdaterLoopStep
    \/ MainLoopStep

FairRunning ==
    /\ WF_vars(MainLoopStep)
    /\ SF_vars(get_next_request_acquire)
    /\ WF_vars(UpdaterLoopStep)
    /\ WF_vars(ReaperStep)
    /\ SF_vars(RequestManager_run_acquire)
    /\ \A i \in Interfaces :
          /\ WF_vars(create_request_append(i) \/ create_request_insert(i)
                        \/ create_request_release(i))
          /\ SF_vars(create_request_acquire(i))

FairSpecRunning == Init /\ [][NextRunning]_vars /\ FairRunning

\* every request of the dictionary is EXECUTED or ERROR, the queue is empty
\* and the main thread is not inside update()
AllSettled ==
    /\ Queued = {}
    /\ \A u \in _request_dict : status[u] \in Terminal
    /\ ucall[MAIN] = "out"

\* C32: while the program keeps running and every thread is scheduled,
\* every request that create_request has put in the queue eventually has
\* status EXECUTED or ERROR (a terminal status stays), and the main thread
\* always comes back from update(): again and again all the requests
\* submitted so far are settled.
C32_EveryRequestSettles == []<>AllSettled

\* C32 witness: every request has been submitted and executed, and the main
\* thread has come back from update() and polls the empty queue
C32_Witness ==
    /\ AllSettled
    /\ \A u \in Uuids : u \in _request_dict /\ status[u] \in Terminal
    /\ mpc = "next"
    /\ ~_paused


(***************************************************************************)
(* The console interface thread (console.py:294-334 and 472-489): it       *)
(* creates a request and polls its status until the request is over.  The  *)
(* position of the thread is kept in ipc[i], after the positions of        *)
(* create_request: "wait1" and "wait2" are the two polling loops of        *)
(* _ask_for_request, "test" its final comparison, "executed" and "failed"  *)
(* its two returns; "swait" is the polling loop of stop_execution, "stest" *)
(* its comparison, "sfailed" its message and "exit0" its exit(0).          *)
(***************************************************************************)
\* create_request returns the id to _ask_for_request (requests.py:215-217,
\* console.py:310)
_ask_for_request_create(i) ==
    /\ Alive
    /\ ipc[i] = "release"
    /\ _request_lock' = None
    /\ ipc' = [ipc EXCEPT ![i] = "wait1"]
    /\ UNCHANGED <<reqVars, _request_deque, _request_dict, appended, dequeued, ireq,
                   reapVars, flagVars, updVars, callVars, cacheVars, mainVars,
                   stop_flag, now>>

\* `while get_request_status(request_uuid)==1: sleep(0.1)' (console.py:316-317)
_ask_for_request_wait1(i) ==
    /\ Alive
    /\ ipc[i] = "wait1"
    /\ ipc' = [ipc EXCEPT ![i] =
                 IF get_request_status(ireq[i]) = PENDING THEN "wait1" ELSE "wait2"]
    /\ UNCHANGED <<reqVars, mgrVars, ireq, reapVars, flagVars, updVars, callVars,
                   cacheVars, mainVars, stop_flag, now>>

\* `while get_request_status(request_uuid) == 2: sleep(0.1)', then the
\* answer is read (console.py:322-325)
_ask_for_request_wait2(i) ==
    /\ Alive
    /\ ipc[i] = "wait2"
    /\ ipc' = [ipc EXCEPT ![i] =
                 IF get_request_status(ireq[i]) = EXECUTING THEN "wait2" ELSE "test"]
    /\ UNCHANGED <<reqVars, mgrVars, ireq, reapVars, flagVars, updVars, callVars,
                   cacheVars, mainVars, stop_flag, now>>

\* `if get_request_status(request_uuid) == -1:' prints the error and
\* returns -1, None; else prints `Request ... executed!' and returns 3 and
\* the answer (console.py:327-334)
_ask_for_request_test(i) ==
    /\ Alive
    /\ ipc[i] = "test"
    /\ ipc' = [ipc EXCEPT ![i] =
                 IF get_request_status(ireq[i]) = ERROR THEN "failed" ELSE "executed"]
    /\ UNCHANGED <<reqVars, mgrVars, ireq, reapVars, flagVars, updVars, callVars,
                   cacheVars, mainVars, stop_flag, now>>

\* _ask_for_request returns to the command loop
_ask_for_request_return(i) ==
    /\ Alive
    /\ ipc[i] \in {"failed", "executed", "sfailed"}
    /\ ipc' = [ipc EXCEPT ![i] = "idle"]
    /\ UNCHANGED <<reqVars, mgrVars, ireq, reapVars, flagVars, updVars, callVars,
                   cacheVars, mainVars, stop_flag, now>>

\* create_request(exit) returns the id to stop_execution (console.py:479)
stop_execution_create(i) ==
    /\ Alive
    /\ ipc[i] = "release"
    /\ _request_lock' = None
    /\ ipc' = [ipc EXCEPT ![i] = "swait"]
    /\ UNCHANGED <<reqVars, _request_deque, _request_dict, appended, dequeued, ireq,
                   reapVars, flagVars, updVars, callVars, cacheVars, mainVars,
                   stop_flag, now>>

\* `while get_request_status(request_uuid) in (1, 2): sleep(0.1)'
\* (console.py:483-484)
stop_execution_wait(i) ==
    /\ Alive
    /\ ipc[i] = "swait"
    /\ ipc' = [ipc EXCEPT ![i] =
                 IF get_request_status(ireq[i]) \in {PENDING, EXECUTING}
                   THEN "swait" ELSE "stest"]
    /\ UNCHANGED <<reqVars, mgrVars, ireq, reapVars, flagVars, updVars, callVars,
                   cacheVars, mainVars, stop_flag, now>>

\* `if get_request_status(request_uuid) == -1:' prints that the request
\* failed; else exit(0) ends the console thread (console.py:486-489)
stop_execution_test(i) ==
    /\ Alive
    /\ ipc[i] = "stest"
    /\ ipc' = [ipc EXCEPT ![i] =
                 IF get_request_status(ireq[i]) = ERROR THEN "sfailed" ELSE "exit0"]
    /\ UNCHANGED <<reqVars, mgrVars, ireq, reapVars, flagVars, updVars, callVars,
                   cacheVars, mainVars, stop_flag, now>>

\* the one console thread of the program (dockerhood.py:152-156)
Console == "i1"

ConsoleStep ==
    \/ create_request_construct(Console)
    \/ create_request_acquire(Console)
    \/ create_request_append(Console)
    \/ create_request_insert(Console)
    \/ _ask_for_request_create(Console)
    \/ _ask_for_request_wait1(Console)
    \/ _ask_for_request_wait2(Console)
    \/ _ask_for_request_test(Console)
    \/ _ask_for_request_return(Console)
    \/ stop_execution_create(Console)
    \/ stop_execution_wait(Console)
    \/ stop_execution_test(Console)

\* the program with the console as its only interface
NextConsole ==
    \/ Tick
    \/ ConsoleStep
    \/ ReaperStep
    \/ UpdaterLoopStep
    \/ MainLoopStep

SpecConsole == Init /\ [][NextConsole]_vars

\* C33: _ask_for_request takes its `executed' return (status 3, message
\* `Request ... executed!') only when the status it reads in its final
\* comparison is EXECUTED, and stop_execution takes its exit(0) branch only
\* for a request that get_request_status still knows.
C33_ExecutedOnlyIfExecuted ==
    [][\A i \in Interfaces :
          /\ (ipc[i] = "test" /\ ipc'[i] = "executed")
                => get_request_status(ireq[i]) = EXECUTED
          /\ (ipc[i] = "stest" /\ ipc'[i] = "exit0")
                => get_request_status(ireq[i]) # Absent]_vars


\* the statuses after which a reader expects the final answer: ERROR, and
\* EXECUTED when the action returned (after SystemExit there is no answer)
AnswerExpected(u) ==
    \/ get_request_status(u) = ERROR
    \/ get_request_status(u) = EXECUTED /\ outcome[u] = "return"

SweepOrder == _request_deque \o old_queue

\* C35: a sweep keeps the order of the ids.  No id is twice in the new and
\* the old queue together; the sweep starts with the new queue empty and the
\* old one holding the FIFO as it was; each turn of its loop either deletes
\* the first id of the old queue (when it is older than discard_time) or
\* moves it behind the ids already kept, all other ids staying in their
\* order; no other thread changes the FIFO during the sweep, and an id that
\* create_request appends is put after the end of the sweep, behind every id
\* the sweep kept.
C35_SweepKeepsOrder ==
    /\ [](\A j, k \in 1..Len(SweepOrder) :
             j # k => SweepOrder[j] # SweepOrder[k])
    /\ [][(rpc = "acquire" /\ rpc' = "walk")
             => /\ _request_deque' = <<>>
                /\ SweepOrder' = SweepOrder]_vars
    /\ [][(rpc = "walk" /\ old_queue' # old_queue)
             => SweepOrder' = IF TooOld(Head(old_queue))
                                THEN _request_deque \o Tail(old_queue)
                                ELSE SweepOrder]_vars
    /\ [][(rpc = "walk" /\ old_queue' = old_queue)
             => _request_deque' = _request_deque]_vars
    /\ [][\A i \in Interfaces :
             (ipc[i] = "append" /\ ipc'[i] # "append")
                => /\ rpc # "walk"
                   /\ _request_deque' = Append(_request_deque, ireq[i])]_vars

\* C35 witness: the sweep has looked at two ids, kept both, and they are in
\* the new queue in the order in which they were appended
C35_Witness ==
    /\ rpc = "walk"
    /\ old_queue = <<>>
    /\ Len(_request_deque) = 2
    /\ _request_deque = appended


\* the threads between `self._update_now = True' and `self._executed = False'
\* of update() (status.py:218-226)
Requesting == {t \in UpdateThreads : ucall[t] \in {"wait", "reset"}}

\* the positions of StatusUpdater.run between reading _update_now as true and
\* `self._executed = True' (status.py:180-184 and 195-199)
ServingPcs == {"U1", "E1", "U2", "E2"}

\* C36: force refreshes are served one at a time, each caller by a refresh
\* of its own.  At most one thread is between setting _update_now and
\* resetting _executed, and it holds __update_lock.  _update_now is true
\* only while that thread waits and the updater has not yet picked the
\* request up; the updater is at a refresh that serves a request only while
\* that thread waits, the request taken and no completion signalled;
\* _executed is true only while that thread waits or resets, after a refresh
\* that began after its call; a thread past the wait has such a refresh.
\* The completion signal is given only at the end of a serving refresh, and
\* a serving refresh begins only by taking a pending request.  So with no
\* thread between the two assignments (in particular with no caller inside
\* update()) both flags are false, and N calls that return had N refreshes.
C36_ForceRefreshSerialized ==
    /\ [](/\ Cardinality(Requesting) <= 1
          /\ \A t \in Requesting : update_lock = t
          /\ _update_now =>
                /\ \E t \in Requesting : ucall[t] = "wait"
                /\ ~_executed
                /\ upc \notin ServingPcs
          /\ upc \in ServingPcs =>
                /\ \E t \in Requesting : ucall[t] = "wait"
                /\ ~_update_now
                /\ ~_executed
          /\ _executed =>
                /\ Requesting # {}
                /\ ~_update_now
                /\ \A t \in Requesting : fresh[t] = 2
          /\ \A t \in UpdateThreads :
                ucall[t] \in {"reset", "release"} => fresh[t] = 2
          /\ (\A t \in UpdateThreads : ucall[t] = "out")
                => ~_update_now /\ ~_executed)
    /\ [][(~_executed /\ _executed') => upc \in {"E1", "E2"}]_vars
    /\ [][(upc \notin ServingPcs /\ upc' \in ServingPcs)
             => _update_now /\ ~_update_now']_vars
    /\ [][(~_update_now /\ _update_now')
             => \E t \in UpdateThreads :
                   ucall[t] = "request" /\ ucall'[t] = "wait"]_vars

\* C36 witness: one caller has been served and is about to reset _executed
\* while another one, inside update() too, waits for __update_lock
C36_Witness ==
    \E t, s \in UpdateThreads :
        /\ t # s
        /\ ucall[t] = "reset"
        /\ _executed
        /\ fresh[t] = 2
        /\ ucall[s] = "acquire"


\* C37: the request lock is released after every acquisition, and nobody
\* waits for it forever.  While the program runs and its threads are
\* scheduled fairly, the lock is free again and again; an interface thread
\* is again and again past the acquire of create_request, and the main
\* thread again and again past the acquire of get_next_request, whether the
\* FIFO was empty or not.
C37_LockAlwaysReleased ==
    /\ []<>(_request_lock = None)
    /\ \A i \in Interfaces : []<>(ipc[i] # "acquire")
    /\ []<>(mpc # "next")

\* C37 witness: the reaper holds the lock in its sweep while an interface
\* thread and the main thread both wait for it
C37_Witness ==
    /\ _request_lock = "reaper"
    /\ rpc = "walk"
    /\ \E i \in Interfaces : ipc[i] = "acquire"
    /\ mpc = "next"


\* C38: after construction only the updater thread writes the cache.  A step
\* that changes a cached field is a step of StatusUpdater.run that enters or
\* leaves self._update(); and every step of the main thread (pause, update,
\* unpause included), of an interface thread or of the reaper, as every step
\* that changes one of the flags of the updater from outside, leaves the
\* cache as it was.
C38_OnlyUpdaterWritesCache ==
    /\ [][(cache' # cache)
             => /\ upc' # upc
                /\ \/ upc \notin RefreshPcs /\ upc' \in RefreshPcs
                   \/ upc \in RefreshPcs /\ upc' \in {"E1", "L1", "E2"}]_vars
    /\ [][(\/ mpc' # mpc
           \/ ucall' # ucall
           \/ _paused' # _paused
           \/ ipc' # ipc
           \/ rpc' # rpc
           \/ _request_lock' # _request_lock
           \/ now' # now)
             => cache' = cache]_vars

\* C38 witness: the main thread has gone through pause(), an execution,
\* update() and unpause(), and the cache holds what the updater read after
\* that execution
C38_Witness ==
    /\ request # Absent
    /\ finished[request] > 0
    /\ cache.linker = finished[request]
    /\ cache.workers = finished[request]
    /\ mpc = "next"
    /\ ~_paused

=============================================================================
